---- MODULE Spec2Model ----
(***************************************************************************)
(* The job-leasing core of the rdpc database server (server/main.go): the   *)
(* `queries` table and the handlers InsertQuery, GetInfoQueries,            *)
(* GetPriceQueries, UpdateNextRun and DeleteQuery that read and write it.   *)
(*                                                                         *)
(* Time is the wall clock in whole seconds, as time.Now().UTC().Unix()      *)
(* returns it; the clock never runs backwards.  Every SQL statement is one  *)
(* atomic step (SQLite runs a statement in its own transaction, and         *)
(* initDB allows one open connection).  The clock readings of a claim       *)
(* handler are steps of their own, because the handler calls time.Now()     *)
(* twice before it runs its statement: the second reading may fall in the   *)
(* second after the first, and the statement may run any time later (it     *)
(* waits for the one connection).                                          *)
(***************************************************************************)
EXTENDS Integers, Sequences, FiniteSets, TLC

(***************************************************************************)
(* Program constants.                                                      *)
(***************************************************************************)
\* time.Now().Add(-5 * time.Minute): the lease window, in seconds.
LeaseDuration == 300
\* LIMIT 4 of the inner SELECT.
BatchSize == 4
\* time.Hour, in seconds.
SecondsPerHour == 3600
\* time.Duration counts nanoseconds; Unix() counts seconds.
NanosPerSecond == 1000000000
\* time.Duration is an int64: 8 bytes.
DurationBytes == 8

(***************************************************************************)
(* Bounds of the model.                                                    *)
(***************************************************************************)
\* Rows InsertQuery may create in a run of Spec; rows of a table SpecRace draws.
MaxQueries == 1
\* Advances of the clock in one run.
MaxTicks == 2
\* Rows of a table SpecBatch draws.
BatchRows == 5
\* Rows of a table SpecLive draws.
LiveRows == 5

(***************************************************************************)
(* Inputs.                                                                 *)
(***************************************************************************)
\* The claim calls that may be in flight at once: two in SpecRace, one elsewhere.
Workers == {"w1", "w2"}
Callers == {"w1"}
\* q.League of an UpdateNextRun request; InsertQuery requests carry the first.
Leagues == {"Standard", "Hardcore"}
InsertLeagues == {"Standard"}
\* q.Update of an UpdateNextRun request.  5124096 hours is the smallest
\* interval above 2^64 nanoseconds: its time.Duration wraps to 1526.29 s.
Updates == {1, 5124096}
\* q.Update of an InsertQuery request.
InsertUpdates == {24}
\* q.NextRun of an InsertQuery request, relative to the clock.
NextRunOffsets == {-1, 0}
\* Seconds by which the clock may advance in one step.
TickSteps == {1, LeaseDuration, SecondsPerHour}
\* Seconds by which the clock may advance in one step of SpecRace.
RaceSteps == {1, LeaseDuration}
\* Seconds by which the clock may advance in one step of SpecDone.
DoneSteps == {1}
\* Seconds by which the clock may advance in one step of SpecTrip.
TripSteps == {1, SecondsPerHour}
\* The q.Update of the UpdateNextRun requests of SpecHours: negative, zero
\* and positive intervals, small ones and ones whose product with
\* time.Hour does not fit an int64 (2^64 ns are 5124095.58 hours).
Hours == {-5124095, -1, 0, 1, 5124095, 5124096}
\* Seconds by which the clock may advance in one step of SpecStale.
StaleSteps == {LeaseDuration}
\* Seconds that may pass between two calls of SpecLive: the whole lease,
\* and a second more.
LiveSteps == {LeaseDuration, LeaseDuration + 1}
\* The ids a request may name: those InsertQuery can assign; each is the id
\* of no row before its INSERT and after its DELETE.
Ids == 1..MaxQueries

VARIABLES
    queries,   \* the queries table: id -> row
    nextId,    \* the id the next inserted row gets
    clock,     \* time.Now().UTC().Unix()
    ticks,     \* advances of the clock so far
    pc,        \* per claim call: idle, now, lease, rows, err
    handler,   \* per claim call: the handler that runs
    now,       \* per claim call: the local `now`
    lease,     \* per claim call: the local `lease`
    resp,      \* per claim call: the pb.Queries it returns
    reply,     \* the status the last InsertQuery/UpdateNextRun/DeleteQuery returned
    last       \* the last UpdateNextRun/DeleteQuery call SpecDone has seen

vars == <<queries, nextId, clock, ticks, pc, handler, now, lease, resp, reply, last>>
callVars == <<pc, handler, now, lease, resp>>

(***************************************************************************)
(* time.Duration(q.Update) * time.Hour, in int64 nanoseconds.  TLC's        *)
(* integers are 32 bits wide, so the product is computed on little-endian  *)
(* base-256 digits, DurationBytes of them, which is arithmetic mod 2^64.   *)
(***************************************************************************)
Digit(n, i) == IF i = 0 THEN n % 256
               ELSE IF i = 1 THEN (n \div 256) % 256
               ELSE IF i = 2 THEN (n \div 65536) % 256
               ELSE IF i = 3 THEN (n \div 16777216) % 256
               ELSE 0

\* A natural number below 2^31 as DurationBytes digits.
ToBytes(n) == [i \in 0..(DurationBytes - 1) |-> Digit(n, i)]

RECURSIVE Carry(_, _, _)
\* Normalises digits d (each below 2^31 / 2) from position i on, dropping
\* the carry out of the last digit: the value mod 2^64.
Carry(d, i, c) ==
    IF i = DurationBytes THEN d
    ELSE Carry([d EXCEPT ![i] = (d[i] + c) % 256], i + 1, (d[i] + c) \div 256)

RECURSIVE Conv(_, _, _, _)
\* Sum of a[j] * b[i - j] for j in k..i.
Conv(a, b, i, k) == IF k > i THEN 0 ELSE a[k] * b[i - k] + Conv(a, b, i, k + 1)

\* a * b mod 2^64.
MulBytes(a, b) ==
    Carry([i \in 0..(DurationBytes - 1) |-> Conv(a, b, i, 0)], 0, 0)

\* -a mod 2^64 (two's complement).
NegBytes(a) == Carry([i \in 0..(DurationBytes - 1) |-> 255 - a[i]], 0, 1)

\* An int64 of small magnitude as its two's complement digits.
Int64(n) == IF n >= 0 THEN ToBytes(n) ELSE NegBytes(ToBytes(0 - n))

IsNegative(a) == a[DurationBytes - 1] >= 128

RECURSIVE DivSmall(_, _, _, _)
\* Long division of digits a by m < 2^23 from digit i down: <<quotient, remainder>>.
DivSmall(a, m, i, r) ==
    IF i < 0 THEN <<a, r>>
    ELSE DivSmall([a EXCEPT ![i] = (r * 256 + a[i]) \div m], m, i - 1,
                  (r * 256 + a[i]) % m)

RECURSIVE ToInt(_, _)
\* The value of digits a from digit i up (it must fit TLC's integers).
ToInt(a, i) == IF i = DurationBytes THEN 0 ELSE a[i] + 256 * ToInt(a, i + 1)

\* time.Hour as a Duration.
HourNanos == MulBytes(ToBytes(SecondsPerHour), ToBytes(NanosPerSecond))

\* |d| / 10^9 and whether a remainder is left, d a non-negative Duration:
\* 10^9 = 1000 * 1000 * 1000, each factor small enough for DivSmall.
SplitSeconds(a) ==
    LET d1 == DivSmall(a, 1000, DurationBytes - 1, 0)
        d2 == DivSmall(d1[1], 1000, DurationBytes - 1, 0)
        d3 == DivSmall(d2[1], 1000, DurationBytes - 1, 0)
    IN  [sec |-> d3[1], exact |-> d1[2] = 0 /\ d2[2] = 0 /\ d3[2] = 0]

\* Unix() of time.Now().Add(time.Duration(h) * time.Hour), less Unix() of
\* time.Now(): the whole seconds the product adds.  Time.Add carries the
\* nanoseconds of the clock into the seconds, and the model's clock has no
\* nanoseconds, so a product that is no whole number of seconds adds one of
\* two values.
AddSeconds(h) ==
    LET d == MulBytes(Int64(h), HourNanos)
        s == SplitSeconds(IF IsNegative(d) THEN NegBytes(d) ELSE d)
        q == ToInt(s.sec, 0)
    IN  IF IsNegative(d)
        THEN IF s.exact THEN {0 - q} ELSE {0 - q - 1, 0 - q}
        ELSE IF s.exact THEN {q} ELSE {q, q + 1}

\* AddSeconds on the intervals the model uses, computed once.
AddedSeconds == [h \in Updates \cup Hours |-> AddSeconds(h)]

(***************************************************************************)
(* The queries table.                                                      *)
(***************************************************************************)
\* The defaults of the columns status and started_at in the table's schema.
DefaultStatus == "queued"
DefaultStartedAt == 0

\* The row INSERT INTO queries (...) creates.  The INSERT names neither
\* status nor started_at: they get the defaults of the schema.
NewRow(q) ==
    [item_id |-> q.item_id, realm |-> q.realm, league |-> q.league,
     search_query |-> q.search_query, update_interval |-> q.update_interval,
     next_run |-> q.next_run, status |-> DefaultStatus,
     started_at |-> DefaultStartedAt, run_once |-> q.run_once]

\* Eligible with the next_run test left out: a row is selected before it
\* is due.
EligibleAnyTime(row, flag, nowArg, leaseArg) ==
    /\ \/ row.status = "queued"
       \/ row.status = "in_progress" /\ row.started_at < leaseArg
    /\ row.run_once = flag

\* Eligible with no lease window: a row in progress is selected like a
\* queued one.
EligibleNoLease(row, flag, nowArg, leaseArg) ==
    /\ row.status \in {"queued", "in_progress"}
    /\ row.next_run < nowArg
    /\ row.run_once = flag

\* Eligible with the lease test left out: only queued rows are selected.
EligibleQueuedOnly(row, flag, nowArg, leaseArg) ==
    /\ row.status = "queued"
    /\ row.next_run < nowArg
    /\ row.run_once = flag

\* WHERE (status = 'queued' OR (status = 'in_progress' AND started_at < ?))
\*   AND next_run < ? AND run_once = <flag>
Eligible(row, flag, nowArg, leaseArg) ==
    /\ \/ row.status = "queued"
       \/ row.status = "in_progress" /\ row.started_at < leaseArg
    /\ row.next_run < nowArg
    /\ row.run_once = flag

\* FirstN with ORDER BY id DESC: the n largest members.
FirstNDesc(S, n) == {i \in S : Cardinality({j \in S : j > i}) < n}

\* ORDER BY id LIMIT 4: the n smallest members of a set of ids.
FirstN(S, n) == {i \in S : Cardinality({j \in S : j < i}) < n}

\* Selected with the LIMIT left out.
SelectedNoLimit(tbl, flag, nowArg, leaseArg) ==
    {i \in DOMAIN tbl :
        /\ \/ tbl[i].status = "queued"
           \/ tbl[i].status = "in_progress" /\ tbl[i].started_at < leaseArg
        /\ tbl[i].next_run < nowArg
        /\ tbl[i].run_once = flag}

\* The ids of the inner SELECT.
Selected(tbl, flag, nowArg, leaseArg) ==
    FirstN({i \in DOMAIN tbl : Eligible(tbl[i], flag, nowArg, leaseArg)}, BatchSize)

\* ClaimUpdate that sets the status and leaves started_at as it is.
ClaimUpdateStatusOnly(tbl, sel, nowArg) ==
    [i \in DOMAIN tbl |->
        IF i \in sel THEN [tbl[i] EXCEPT !.status = "in_progress"] ELSE tbl[i]]

\* ClaimUpdate as a SELECT that marks nothing.
ClaimUpdateNone(tbl, sel, nowArg) == tbl

\* UPDATE queries SET status = 'in_progress', started_at = ? WHERE id IN (...)
ClaimUpdate(tbl, sel, nowArg) ==
    [i \in DOMAIN tbl |->
        IF i \in sel
        THEN [tbl[i] EXCEPT !.status = "in_progress", !.started_at = nowArg]
        ELSE tbl[i]]

\* The pb.Query rows.Scan fills from one RETURNING row.
Query(tbl, i) ==
    [id |-> i, item_id |-> tbl[i].item_id, realm |-> tbl[i].realm,
     league |-> tbl[i].league, search_query |-> tbl[i].search_query,
     update_interval |-> tbl[i].update_interval, next_run |-> tbl[i].next_run,
     status |-> tbl[i].status, started_at |-> tbl[i].started_at,
     run_once |-> tbl[i].run_once]

\* The orders in which RETURNING may emit the rows of sel.  The statement
\* has no ORDER BY of its own (the one it has sorts the inner SELECT), and
\* SQLite leaves the order of RETURNING rows unspecified.
Orders(sel) ==
    {s \in [1..Cardinality(sel) -> sel] : \A a, b \in DOMAIN s : a # b => s[a] # s[b]}

\* Reschedule keyed by id alone: WHERE id = ?
RescheduleAnyLeague(tbl, id, league, nextRun) ==
    [i \in DOMAIN tbl |->
        IF i = id
        THEN [tbl[i] EXCEPT !.next_run = nextRun, !.status = "queued",
                            !.started_at = 0]
        ELSE tbl[i]]

\* Reschedule as an upsert: a row the id names no more is written anew.
RescheduleUpsert(tbl, id, league, nextRun) ==
    [i \in DOMAIN tbl \cup {id} |->
        IF i \notin DOMAIN tbl
        THEN [item_id |-> "item", realm |-> "poe2", league |-> league,
              search_query |-> "{}", update_interval |-> 24,
              next_run |-> nextRun, status |-> "queued", started_at |-> 0,
              run_once |-> FALSE]
        ELSE IF tbl[i].league = league
        THEN [tbl[i] EXCEPT !.next_run = nextRun, !.status = "queued",
                            !.started_at = 0]
        ELSE tbl[i]]

\* Reschedule of jobs in progress alone:
\* WHERE id = ? AND league = ? AND status = 'in_progress'
RescheduleInProgress(tbl, id, league, nextRun) ==
    [i \in DOMAIN tbl |->
        IF i = id /\ tbl[i].league = league /\ tbl[i].status = "in_progress"
        THEN [tbl[i] EXCEPT !.next_run = nextRun, !.status = "queued",
                            !.started_at = 0]
        ELSE tbl[i]]

\* Reschedule with started_at left as it is.
RescheduleKeepStarted(tbl, id, league, nextRun) ==
    [i \in DOMAIN tbl |->
        IF i = id /\ tbl[i].league = league
        THEN [tbl[i] EXCEPT !.next_run = nextRun, !.status = "queued"]
        ELSE tbl[i]]

\* UPDATE queries SET next_run = ?, status = 'queued', started_at = 0
\* WHERE id = ? AND league = ?
Reschedule(tbl, id, league, nextRun) ==
    [i \in DOMAIN tbl |->
        IF i = id /\ tbl[i].league = league
        THEN [tbl[i] EXCEPT !.next_run = nextRun, !.status = "queued",
                            !.started_at = 0]
        ELSE tbl[i]]

\* The rows the WHERE clause of UpdateNextRun's statement matches: what the
\* sql.Result of its Exec counts, and the handler discards.
RescheduleMatches(tbl, id, league) ==
    {i \in DOMAIN tbl : i = id /\ tbl[i].league = league}

\* Delete that removes nothing.
DeleteNothing(tbl, id) == tbl

\* DELETE FROM queries WHERE id = ?
Delete(tbl, id) == [i \in DOMAIN tbl \ {id} |-> tbl[i]]

\* The rows the WHERE clause of DeleteQuery's statement matches.
DeleteMatches(tbl, id) == {i \in DOMAIN tbl : i = id}

IdsOf(s) == {s[k].id : k \in DOMAIN s}

(***************************************************************************)
(* The handlers.                                                           *)
(***************************************************************************)
\* No unary call has returned yet.
NoReply == "none"

\* The record of a completion call, kept by the specification that watches
\* them (in the others `last` stays as it starts): the handler, the q.Id,
\* q.League and q.Update of its request ("" and 0 where the request has
\* none), its time.Now() (0 where it reads none), the rows its statement
\* matched, whether a row it matched was in progress, and whether it
\* repeats the completion call before it: the same handler with the same
\* request at the same time.
NoCall ==
    [op |-> "none", id |-> 0, league |-> "", h |-> 0, at |-> 0, rows |-> 0,
     leased |-> FALSE, again |-> FALSE]

Call(op, id, league, h, at, matched) ==
    [op |-> op, id |-> id, league |-> league, h |-> h, at |-> at,
     rows |-> Cardinality(matched),
     leased |-> \E i \in matched : queries[i].status = "in_progress",
     again |-> /\ last.op = op
               /\ last.id = id
               /\ last.league = league
               /\ last.h = h
               /\ last.at = at]

\* The pb.Query messages an InsertQuery request may carry.
InsertRequests ==
    [item_id : {"item"}, realm : {"poe2"}, league : InsertLeagues,
     search_query : {"{}"}, update_interval : InsertUpdates,
     next_run : {clock + o : o \in NextRunOffsets}, run_once : BOOLEAN]

\* time.Now() moves on.  The two readings of a claim handler are
\* consecutive statements: between them the clock passes at most into the
\* next second.
Tick(d) ==
    /\ ticks < MaxTicks
    /\ (\E w \in Workers : pc[w] = "now") => d = 1
    /\ clock' = clock + d
    /\ ticks' = ticks + 1
    /\ UNCHANGED <<queries, nextId, callVars, reply, last>>

\* InsertQuery: one INSERT; the table assigns the id.
InsertQuery(q) ==
    /\ nextId <= MaxQueries
    /\ queries' = [i \in DOMAIN queries \cup {nextId} |->
                      IF i = nextId THEN NewRow(q) ELSE queries[i]]
    /\ nextId' = nextId + 1
    /\ reply' = "OK"
    /\ UNCHANGED <<clock, ticks, callVars, last>>

\* RunOnceOf with GetPriceQueries carrying GetInfoQueries' literal.
RunOnceOfInfo(h) == TRUE

\* The literal each handler's statement compares run_once with.
RunOnceOf(h) == h = "GetInfoQueries"

\* GetInfoQueries / GetPriceQueries, `now := time.Now().UTC().Unix()`.
ReadNow(w, h) ==
    /\ pc[w] = "idle"
    /\ pc' = [pc EXCEPT ![w] = "now"]
    /\ handler' = [handler EXCEPT ![w] = h]
    /\ now' = [now EXCEPT ![w] = clock]
    /\ UNCHANGED <<queries, nextId, clock, ticks, lease, resp, reply, last>>

GetInfoQueries(w) == ReadNow(w, "GetInfoQueries")

GetPriceQueries(w) == ReadNow(w, "GetPriceQueries")

\* `lease := time.Now().Add(-5 * time.Minute).UTC().Unix()`: a second
\* reading of the clock.
ReadLease(w) ==
    /\ pc[w] = "now"
    /\ pc' = [pc EXCEPT ![w] = "lease"]
    /\ lease' = [lease EXCEPT ![w] = clock - LeaseDuration]
    /\ UNCHANGED <<queries, nextId, clock, ticks, handler, now, resp, reply, last>>

\* s.db.Query(query, now, lease, now) and the rows.Next() loop: the UPDATE
\* marks the selected rows and RETURNING yields them as they are afterwards.
RunQuery(w) ==
    /\ pc[w] = "lease"
    /\ LET sel == Selected(queries, RunOnceOf(handler[w]), now[w], lease[w])
           tbl == ClaimUpdate(queries, sel, now[w])
       IN  /\ queries' = tbl
           /\ \E o \in Orders(sel) :
                 resp' = [resp EXCEPT ![w] = [k \in DOMAIN o |-> Query(tbl, o[k])]]
    /\ pc' = [pc EXCEPT ![w] = "rows"]
    /\ UNCHANGED <<nextId, clock, ticks, handler, now, lease, reply, last>>

\* `return queries, nil`.
Return(w) ==
    /\ pc[w] = "rows"
    /\ pc' = [pc EXCEPT ![w] = "idle"]
    /\ handler' = [handler EXCEPT ![w] = "none"]
    /\ now' = [now EXCEPT ![w] = 0]
    /\ lease' = [lease EXCEPT ![w] = 0]
    /\ resp' = [resp EXCEPT ![w] = <<>>]
    /\ UNCHANGED <<queries, nextId, clock, ticks, reply, last>>

\* s.db.Query returns an error: the statement did not run, or failed and
\* was rolled back.  `return nil, status.Errorf(codes.Internal, ...)`.
QueryFails(w) ==
    /\ pc[w] = "lease"
    /\ pc' = [pc EXCEPT ![w] = "err"]
    /\ UNCHANGED <<queries, nextId, clock, ticks, handler, now, lease, resp, reply, last>>

\* s.db.Query returned no error, so the UPDATE has run (SQLite makes all the
\* changes of an UPDATE ... RETURNING before it yields the first row, and
\* rows.Close() ends the statement without undoing them); then rows.Scan or
\* rows.Err() reports an error and the handler returns nil and that error.
ScanFails(w) ==
    /\ pc[w] = "lease"
    /\ queries' = ClaimUpdate(queries,
                     Selected(queries, RunOnceOf(handler[w]), now[w], lease[w]), now[w])
    /\ pc' = [pc EXCEPT ![w] = "err"]
    /\ UNCHANGED <<nextId, clock, ticks, handler, now, lease, resp, reply, last>>

\* The error goes back to the caller.
ReturnError(w) ==
    /\ pc[w] = "err"
    /\ pc' = [pc EXCEPT ![w] = "idle"]
    /\ handler' = [handler EXCEPT ![w] = "none"]
    /\ now' = [now EXCEPT ![w] = 0]
    /\ lease' = [lease EXCEPT ![w] = 0]
    /\ UNCHANGED <<queries, nextId, clock, ticks, resp, reply, last>>

\* s.db.Exec returns an error in UpdateNextRun or DeleteQuery: the statement
\* did not run, or failed and was rolled back.
ExecFails ==
    /\ reply' = "Internal"
    /\ UNCHANGED <<queries, nextId, clock, ticks, callVars, last>>

\* UpdateNextRun: nextRun from one reading of the clock, then one UPDATE.
\* (UpdateNextRun and DeleteQuery leave `last` to the specification: it is
\* no state of the server.)
UpdateNextRun(id, league, h) ==
    /\ \E a \in AddedSeconds[h] :
          queries' = Reschedule(queries, id, league, clock + a)
    /\ reply' = "OK"
    /\ UNCHANGED <<nextId, clock, ticks, callVars>>

\* DeleteQuery: one DELETE.
DeleteQuery(id) ==
    /\ queries' = Delete(queries, id)
    /\ reply' = "OK"
    /\ UNCHANGED <<nextId, clock, ticks, callVars>>

(***************************************************************************)
(* Spec: the server from an empty table, every handler callable.           *)
(***************************************************************************)
IdleCalls ==
    /\ pc = [w \in Workers |-> "idle"]
    /\ handler = [w \in Workers |-> "none"]
    /\ now = [w \in Workers |-> 0]
    /\ lease = [w \in Workers |-> 0]
    /\ resp = [w \in Workers |-> <<>>]
    /\ reply = NoReply
    /\ last = NoCall

Init ==
    /\ queries = [i \in {} |-> 0]
    /\ nextId = 1
    /\ clock = LeaseDuration + 1
    /\ ticks = 0
    /\ IdleCalls

Next ==
    \/ \E d \in TickSteps : Tick(d)
    \/ \E q \in InsertRequests : InsertQuery(q)
    \/ \E w \in Callers : GetInfoQueries(w)
    \/ \E w \in Callers : GetPriceQueries(w)
    \/ \E w \in Callers : ReadLease(w)
    \/ \E w \in Callers : RunQuery(w)
    \/ \E w \in Callers : Return(w)
    \/ \E id \in Ids, league \in Leagues, h \in Updates :
          UpdateNextRun(id, league, h) /\ UNCHANGED last
    \/ \E id \in Ids : DeleteQuery(id) /\ UNCHANGED last

Spec == Init /\ [][Next]_vars

(***************************************************************************)
(* Tables the server can hold at time c, for the specifications that start *)
(* from a drawn table.  A row in progress was claimed at its started_at,    *)
(* so its next_run lies before that; here it was claimed LeaseDuration + 1  *)
(* seconds ago (its lease is over) or LeaseDuration seconds ago (the last   *)
(* second of its lease).                                                   *)
(***************************************************************************)
ShapeRow(flag, nextRun, status, startedAt) ==
    [item_id |-> "item", realm |-> "poe2", league |-> "Standard",
     search_query |-> "{}", update_interval |-> 24, next_run |-> nextRun,
     status |-> status, started_at |-> startedAt, run_once |-> flag]

\* Queued and due, queued and not yet due, in progress with the lease over.
BatchShapes(c) ==
    UNION {{ShapeRow(f, c - 1, "queued", 0),
            ShapeRow(f, c, "queued", 0),
            ShapeRow(f, c - LeaseDuration - 2, "in_progress", c - LeaseDuration - 1)}
           : f \in BOOLEAN}

\* The same, and in progress in the last second of the lease.
RaceShapes(c) ==
    BatchShapes(c) \cup
    {ShapeRow(f, c - LeaseDuration - 1, "in_progress", c - LeaseDuration) : f \in BOOLEAN}

(***************************************************************************)
(* SpecBatch: one claim caller on a drawn table of BatchRows rows, all      *)
(* readings of the clock at one time.                                      *)
(***************************************************************************)
InitBatch ==
    /\ clock = LeaseDuration + 1
    /\ queries \in [1..BatchRows -> BatchShapes(LeaseDuration + 1)]
    /\ nextId = BatchRows + 1
    /\ ticks = 0
    /\ IdleCalls

NextBatch ==
    \/ \E w \in Callers : GetInfoQueries(w)
    \/ \E w \in Callers : GetPriceQueries(w)
    \/ \E w \in Callers : ReadLease(w)
    \/ \E w \in Callers : RunQuery(w)
    \/ \E w \in Callers : Return(w)

SpecBatch == InitBatch /\ [][NextBatch]_vars

(***************************************************************************)
(* SpecRace: two claim callers on a drawn table of MaxQueries rows, the     *)
(* clock moving between their steps, no other handler called.              *)
(***************************************************************************)
InitRace ==
    /\ clock = LeaseDuration + 1
    /\ queries \in [1..MaxQueries -> RaceShapes(LeaseDuration + 1)]
    /\ nextId = MaxQueries + 1
    /\ ticks = 0
    /\ IdleCalls

NextRace ==
    \/ \E d \in RaceSteps : Tick(d)
    \/ \E w \in Workers : GetInfoQueries(w)
    \/ \E w \in Workers : GetPriceQueries(w)
    \/ \E w \in Workers : ReadLease(w)
    \/ \E w \in Workers : RunQuery(w)
    \/ \E w \in Workers : Return(w)

SpecRace == InitRace /\ [][NextRace]_vars

(***************************************************************************)
(* SpecDone: the completion calls.  A drawn table of MaxQueries recurring   *)
(* jobs, one GetPriceQueries caller, the completion calls UpdateNextRun     *)
(* and DeleteQuery, and the clock moving by seconds.  It keeps the record   *)
(* of the last completion call in `last`.                                  *)
(***************************************************************************)
\* Recurring jobs at time c: queued and due, or claimed a second ago.
DoneShapes(c) ==
    {ShapeRow(FALSE, c - 1, "queued", 0),
     ShapeRow(FALSE, c - 2, "in_progress", c - 1)}

InitDone ==
    /\ clock = LeaseDuration + 1
    /\ queries \in [1..MaxQueries -> DoneShapes(LeaseDuration + 1)]
    /\ nextId = MaxQueries + 1
    /\ ticks = 0
    /\ IdleCalls

NextDone ==
    \/ \E d \in DoneSteps : Tick(d)
    \/ \E w \in Callers : GetPriceQueries(w)
    \/ \E w \in Callers : ReadLease(w)
    \/ \E w \in Callers : RunQuery(w)
    \/ \E w \in Callers : Return(w)
    \/ \E id \in Ids, league \in Leagues, h \in Updates :
          /\ UpdateNextRun(id, league, h)
          /\ last' = Call("UpdateNextRun", id, league, h, clock,
                          RescheduleMatches(queries, id, league))
    \/ \E id \in Ids :
          /\ DeleteQuery(id)
          /\ last' = Call("DeleteQuery", id, "", 0, 0, DeleteMatches(queries, id))

SpecDone == InitDone /\ [][NextDone]_vars

(***************************************************************************)
(* SpecTrip: the round trip of a recurring job.  SpecDone's table and       *)
(* caller, UpdateNextRun, and the clock moving by seconds and by hours, so  *)
(* that a rescheduled job becomes due again.                               *)
(***************************************************************************)
NextTrip ==
    \/ \E d \in TripSteps : Tick(d)
    \/ \E w \in Callers : GetPriceQueries(w)
    \/ \E w \in Callers : ReadLease(w)
    \/ \E w \in Callers : RunQuery(w)
    \/ \E w \in Callers : Return(w)
    \/ \E id \in Ids, league \in Leagues, h \in Updates :
          /\ UpdateNextRun(id, league, h)
          /\ last' = Call("UpdateNextRun", id, league, h, clock,
                          RescheduleMatches(queries, id, league))

SpecTrip == InitDone /\ [][NextTrip]_vars

(***************************************************************************)
(* SpecStale: the reschedule of a stale worker.  SpecDone's table, whose    *)
(* jobs in progress a first worker has claimed, the clock moving by the     *)
(* length of a lease, so that the leases of the table run out, a second     *)
(* worker's GetPriceQueries calls, and UpdateNextRun.                       *)
(***************************************************************************)
NextStale ==
    \/ \E d \in StaleSteps : Tick(d)
    \/ \E w \in Callers : GetPriceQueries(w)
    \/ \E w \in Callers : ReadLease(w)
    \/ \E w \in Callers : RunQuery(w)
    \/ \E w \in Callers : Return(w)
    \/ \E id \in Ids, league \in Leagues, h \in Updates :
          /\ UpdateNextRun(id, league, h)
          /\ last' = Call("UpdateNextRun", id, league, h, clock,
                          RescheduleMatches(queries, id, league))

SpecStale == InitDone /\ [][NextStale]_vars

(***************************************************************************)
(* SpecHours: the nextRun of UpdateNextRun over the intervals Hours.        *)
(* SpecDone's table, caller and clock, and UpdateNextRun with the league    *)
(* of the table's jobs and any interval of Hours.                          *)
(***************************************************************************)
NextHours ==
    \/ \E d \in DoneSteps : Tick(d)
    \/ \E w \in Callers : GetPriceQueries(w)
    \/ \E w \in Callers : ReadLease(w)
    \/ \E w \in Callers : RunQuery(w)
    \/ \E w \in Callers : Return(w)
    \/ \E id \in Ids, league \in InsertLeagues, h \in Hours :
          /\ UpdateNextRun(id, league, h)
          /\ last' = Call("UpdateNextRun", id, league, h, clock,
                          RescheduleMatches(queries, id, league))

SpecHours == InitDone /\ [][NextHours]_vars

(***************************************************************************)
(* SpecFail: SpecDone's calls on a store that may fail.  Each call to the   *)
(* store either does what it does in SpecDone or returns an error; for the  *)
(* claim statement the error may come before the UPDATE ran or while its    *)
(* rows are read.                                                          *)
(***************************************************************************)
NextFail ==
    \/ \E d \in DoneSteps : Tick(d)
    \/ \E w \in Callers : GetPriceQueries(w)
    \/ \E w \in Callers : ReadLease(w)
    \/ \E w \in Callers : RunQuery(w)
    \/ \E w \in Callers : Return(w)
    \/ \E w \in Callers : QueryFails(w)
    \/ \E w \in Callers : ScanFails(w)
    \/ \E w \in Callers : ReturnError(w)
    \/ \E id \in Ids, league \in Leagues, h \in Updates :
          UpdateNextRun(id, league, h) /\ UNCHANGED last
    \/ \E id \in Ids : DeleteQuery(id) /\ UNCHANGED last
    \/ ExecFails

SpecFail == InitDone /\ [][NextFail]_vars

(***************************************************************************)
(* SpecLive: GetPriceQueries calls without end on a drawn table of LiveRows *)
(* recurring jobs that no worker ever completes, while time goes on         *)
(* without end (GetInfoQueries differs by its literal only).  To keep       *)
(* the states finite, time is measured from the clock: where the clock      *)
(* would move forward by d, SpecLive moves the timestamps of the table back *)
(* by d.  The claim statement only compares next_run and started_at with    *)
(* the clock, so the calls return what they would return.  A next_run that  *)
(* is LeaseDuration + 2 seconds old and a started_at that is                *)
(* LeaseDuration + 1 seconds old are kept at that age: the row is due and   *)
(* its lease is over, and older changes no comparison.  Time passes         *)
(* between calls.  Fairness: time goes on, the claim handler is called      *)
(* again and again, and a handler that was called runs to its return.       *)
(***************************************************************************)
Max(a, b) == IF a > b THEN a ELSE b

\* A row d seconds later, as seen from the clock.
Aged(row, d) ==
    [row EXCEPT
        !.next_run = Max(row.next_run - d, clock - LeaseDuration - 2),
        !.started_at = IF row.status = "in_progress"
                       THEN Max(row.started_at - d, clock - LeaseDuration - 1)
                       ELSE row.started_at]

\* time.Now() moves on by d between two calls.
Elapse(d) ==
    /\ \A w \in Workers : pc[w] = "idle"
    /\ queries' = [i \in DOMAIN queries |-> Aged(queries[i], d)]
    /\ UNCHANGED <<nextId, clock, ticks, callVars, reply, last>>

\* Recurring jobs at time c: queued and due, or in progress with the lease
\* over.
LiveShapes(c) ==
    {ShapeRow(FALSE, c - 1, "queued", 0),
     ShapeRow(FALSE, c - LeaseDuration - 2, "in_progress", c - LeaseDuration - 1)}

InitLive ==
    /\ clock = LeaseDuration + 2
    /\ queries \in [1..LiveRows -> LiveShapes(LeaseDuration + 2)]
    /\ nextId = LiveRows + 1
    /\ ticks = 0
    /\ IdleCalls

NextLive ==
    \/ \E d \in LiveSteps : Elapse(d)
    \/ \E w \in Callers : GetPriceQueries(w)
    \/ \E w \in Callers : ReadLease(w)
    \/ \E w \in Callers : RunQuery(w)
    \/ \E w \in Callers : Return(w)

FairLive ==
    /\ SF_vars(\E d \in LiveSteps : Elapse(d))
    /\ \A w \in Callers :
          /\ SF_vars(GetPriceQueries(w))
          /\ WF_vars(ReadLease(w))
          /\ WF_vars(RunQuery(w))
          /\ WF_vars(Return(w))

SpecLive == InitLive /\ [][NextLive]_vars /\ FairLive

(***************************************************************************)
(* The properties.  They read the table before and after a statement and   *)
(* the response of the call; they state eligibility in their own words,    *)
(* not through the operators of the model.                                 *)
(***************************************************************************)
\* w runs its statement in this step.
Runs(w) == pc[w] = "lease" /\ pc'[w] = "rows"

\* The pool a call works on.
Pool(w) == handler[w] = "GetInfoQueries"

\* Row i meets the WHERE clause of w's statement, with the cutoffs w read.
Due(i, w) ==
    /\ queries[i].run_once = Pool(w)
    /\ queries[i].next_run < now[w]
    /\ \/ queries[i].status = "queued"
       \/ queries[i].status = "in_progress" /\ queries[i].started_at < lease[w]

DueIds(w) == {i \in DOMAIN queries : Due(i, w)}

\* The due rows of w's pool with a smaller id than i.
DueBefore(i, w) == {j \in DueIds(w) : j < i}

Min(a, b) == IF a < b THEN a ELSE b

\* C1: two claim calls on the same pool whose readings of the clock all lie
\* within one lease window of each other (in particular two calls
\* evaluated at the same time) return disjoint sets of job ids, whatever
\* the order of their steps.
C1_NoDoubleClaim ==
    \A w, v \in Workers :
        ( /\ w # v
          /\ pc[w] = "rows" /\ pc[v] = "rows"
          /\ handler[w] = handler[v]
          /\ lease[w] <= now[v] /\ lease[v] <= now[w] )
        => IdsOf(resp[w]) \cap IdsOf(resp[v]) = {}

\* C1, reached: two calls of one pool inside one lease window hold their
\* responses at once; one was handed a job that was due for the other as
\* well (its next_run lies before the other's now), and the other was
\* handed nothing.
C1_Witness ==
    \E w, v \in Workers :
        /\ w # v
        /\ pc[w] = "rows" /\ pc[v] = "rows"
        /\ handler[w] = handler[v]
        /\ lease[w] <= now[v] /\ lease[v] <= now[w]
        /\ \E k \in DOMAIN resp[w] : resp[w][k].next_run < now[v]
        /\ resp[v] = <<>>

\* C2: every job a claim call returns met, right before the statement, the
\* eligibility predicate at the call's now: next_run < now and (queued, or
\* in progress with started_at < now - LeaseDuration).
C2_ReturnedWereEligible ==
    [][\A w \in Workers :
          Runs(w) =>
            \A k \in DOMAIN resp'[w] :
               LET row == queries[resp'[w][k].id]
               IN  /\ row.next_run < now[w]
                   /\ \/ row.status = "queued"
                      \/ /\ row.status = "in_progress"
                         /\ row.started_at < now[w] - LeaseDuration]_vars

\* C3 as stated: a queued job whose next_run is in the past is returned by
\* the next claim call on its pool, whatever else the table holds.
C3_QueuedDueReturned ==
    [][\A w \in Workers :
          Runs(w) =>
            \A i \in DOMAIN queries :
               ( /\ queries[i].status = "queued"
                 /\ queries[i].next_run < now[w]
                 /\ queries[i].run_once = Pool(w) )
               => i \in IdsOf(resp'[w])]_vars

\* C3, amended: a queued job whose next_run is in the past is returned by
\* the next claim call on its pool unless BatchSize jobs of that pool with
\* smaller ids are due in that call.
C3_QueuedDueReturnedWithinBatch ==
    [][\A w \in Workers :
          Runs(w) =>
            \A i \in DOMAIN queries :
               ( /\ queries[i].status = "queued"
                 /\ queries[i].next_run < now[w]
                 /\ queries[i].run_once = Pool(w)
                 /\ Cardinality(DueBefore(i, w)) < BatchSize )
               => i \in IdsOf(resp'[w])]_vars

\* C3, reached: a call returned a full batch with a job in it that was
\* queued and due (its next_run is the second before now), while a later
\* queued due job of the pool was left behind.
C3_Witness ==
    \E w \in Workers :
        /\ pc[w] = "rows"
        /\ Len(resp[w]) = BatchSize
        /\ \E k \in DOMAIN resp[w] : resp[w][k].next_run = now[w] - 1
        /\ \E i \in DOMAIN queries :
              /\ queries[i].status = "queued"
              /\ queries[i].next_run < now[w]
              /\ queries[i].run_once = Pool(w)

\* C4 as stated: a job claimed at t0 and neither rescheduled nor deleted
\* since (in progress, started_at = t0) is returned by a claim call on its
\* pool evaluated at t0 + LeaseDuration + 1, whatever else the table holds.
C4_ExpiredLeaseReturned ==
    [][\A w \in Workers :
          Runs(w) =>
            \A i \in DOMAIN queries :
               ( /\ queries[i].status = "in_progress"
                 /\ queries[i].run_once = Pool(w)
                 /\ now[w] = queries[i].started_at + LeaseDuration + 1 )
               => i \in IdsOf(resp'[w])]_vars

\* C4, amended: such a job is returned by a claim call on its pool
\* evaluated at t0 + LeaseDuration + 1 unless BatchSize jobs of that pool
\* with smaller ids are due in that call.
C4_ExpiredLeaseReturnedWithinBatch ==
    [][\A w \in Workers :
          Runs(w) =>
            \A i \in DOMAIN queries :
               ( /\ queries[i].status = "in_progress"
                 /\ queries[i].run_once = Pool(w)
                 /\ now[w] = queries[i].started_at + LeaseDuration + 1
                 /\ Cardinality(DueBefore(i, w)) < BatchSize )
               => i \in IdsOf(resp'[w])]_vars

\* C4, reached: a call evaluated LeaseDuration + 1 seconds after a job was
\* claimed (the job's next_run lies a second before that claim) returned
\* the job, with a new started_at.
C4_Witness ==
    \E w \in Workers :
        /\ pc[w] = "rows"
        /\ \E k \in DOMAIN resp[w] :
              /\ resp[w][k].next_run = now[w] - LeaseDuration - 2
              /\ resp[w][k].started_at = now[w]

\* C5: a job in progress whose started_at is t0 is not returned by a claim
\* call evaluated at a now <= t0 + LeaseDuration.
C5_LeasedNotReturned ==
    [][\A w \in Workers :
          Runs(w) =>
            \A i \in DOMAIN queries :
               ( /\ queries[i].status = "in_progress"
                 /\ now[w] <= queries[i].started_at + LeaseDuration )
               => i \notin IdsOf(resp'[w])]_vars

\* C6: a claim call on a pool with n due jobs returns exactly
\* min(BatchSize, n) jobs, each once, all of them due, and every due job it
\* leaves has a larger id than every job it returns.
C6_BatchCapFifo ==
    [][\A w \in Workers :
          Runs(w) =>
            LET got == IdsOf(resp'[w])
            IN  /\ Len(resp'[w]) = Min(BatchSize, Cardinality(DueIds(w)))
                /\ Cardinality(got) = Len(resp'[w])
                /\ got \subseteq DueIds(w)
                /\ \A i \in DueIds(w) \ got : \A j \in got : j < i]_vars

\* C6, reached: a call returned BatchSize jobs and left a queued due job of
\* its pool, whose id is larger than all it returned.
C6_Witness ==
    \E w \in Workers :
        /\ pc[w] = "rows"
        /\ Len(resp[w]) = BatchSize
        /\ \E i \in DOMAIN queries :
              /\ queries[i].status = "queued"
              /\ queries[i].next_run < now[w]
              /\ queries[i].run_once = Pool(w)
              /\ \A j \in IdsOf(resp[w]) : j < i

\* C7: the jobs of one response are in strictly ascending order of id.
C7_ReturnedAscending ==
    \A w \in Workers :
        pc[w] = "rows" =>
            \A a, b \in DOMAIN resp[w] :
               a < b => resp[w][a].id < resp[w][b].id

\* C8: GetInfoQueries returns only run_once = true rows and GetPriceQueries
\* only run_once = false rows; a call changes no row of the other pool and
\* removes none; and it returns min(BatchSize, n) jobs or more, n the due
\* jobs of its own pool, whatever the other pool holds.
C8_PoolIsolation ==
    [][\A w \in Workers :
          Runs(w) =>
            /\ \A k \in DOMAIN resp'[w] :
                  resp'[w][k].run_once = (handler[w] = "GetInfoQueries")
            /\ DOMAIN queries' = DOMAIN queries
            /\ \A i \in DOMAIN queries :
                  queries[i].run_once # Pool(w) => queries'[i] = queries[i]
            /\ Len(resp'[w]) >= Min(BatchSize, Cardinality(DueIds(w)))]_vars

\* C8, reached: a call returned jobs of its pool while a queued due job of
\* the other pool, with a smaller id than all of them, stayed queued.
C8_Witness ==
    \E w \in Workers :
        /\ pc[w] = "rows"
        /\ resp[w] # <<>>
        /\ \E i \in DOMAIN queries :
              /\ queries[i].run_once # Pool(w)
              /\ queries[i].status = "queued"
              /\ queries[i].next_run < now[w]
              /\ \A j \in IdsOf(resp[w]) : i < j

\* C9: every queued job has started_at = 0.
C9_QueuedNotStarted ==
    \A i \in DOMAIN queries :
        queries[i].status = "queued" => queries[i].started_at = 0

\* C9, reached: a job was claimed (the response in flight shows it with a
\* started_at other than 0) and has been rescheduled since: it is queued.
C9_Witness ==
    \E w \in Workers :
        /\ pc[w] = "rows"
        /\ \E k \in DOMAIN resp[w] :
              /\ resp[w][k].started_at # 0
              /\ resp[w][k].id \in DOMAIN queries
              /\ queries[resp[w][k].id].status = "queued"

\* C10: UpdateNextRun with an id and league that match a job sets the job's
\* next_run to now + update_interval * 3600, its status to queued and its
\* started_at to 0, and changes no other job.  (The difference is divided,
\* not the interval multiplied: the product may not fit TLC's integers.)
C10_RescheduleEffect ==
    [][\A id \in Ids, league \in Leagues, h \in Updates :
          ( /\ UpdateNextRun(id, league, h)
            /\ id \in DOMAIN queries
            /\ queries[id].league = league )
          => /\ DOMAIN queries' = DOMAIN queries
             /\ (queries'[id].next_run - clock) % SecondsPerHour = 0
             /\ (queries'[id].next_run - clock) \div SecondsPerHour = h
             /\ queries'[id].status = "queued"
             /\ queries'[id].started_at = 0
             /\ \A j \in DOMAIN queries : j # id => queries'[j] = queries[j]]_vars

\* C11: UpdateNextRun with the id of a job and a league other than the
\* job's leaves the status, started_at and next_run of every job as they
\* are, and removes no job.
C11_LeagueMismatchNoEffect ==
    [][\A id \in Ids, league \in Leagues, h \in Updates :
          ( /\ id \in DOMAIN queries
            /\ queries[id].league # league
            /\ UpdateNextRun(id, league, h) )
          => /\ DOMAIN queries' = DOMAIN queries
             /\ \A i \in DOMAIN queries :
                   /\ queries'[i].status = queries[i].status
                   /\ queries'[i].started_at = queries[i].started_at
                   /\ queries'[i].next_run = queries[i].next_run]_vars

\* C11, reached: the last completion call was an UpdateNextRun that named a
\* job by its id with another league; the job, claimed before the call, is
\* in progress as it was.
C11_Witness ==
    /\ last.op = "UpdateNextRun"
    /\ last.id \in DOMAIN queries
    /\ queries[last.id].league # last.league
    /\ queries[last.id].status = "in_progress"
    /\ queries[last.id].started_at < last.at

\* C12: an UpdateNextRun whose id and league match no job and a
\* DeleteQuery whose id matches no job return NotFound, not the status of
\* success and not that of a store failure.
C12_NotFoundReported ==
    [][/\ \A id \in Ids, league \in Leagues, h \in Updates :
             ( /\ UpdateNextRun(id, league, h)
               /\ ~ \E i \in DOMAIN queries : i = id /\ queries[i].league = league )
             => reply' = "NotFound"
       /\ \A id \in Ids :
             (DeleteQuery(id) /\ id \notin DOMAIN queries) => reply' = "NotFound"]_vars

\* C13: a claim call, an UpdateNextRun or a DeleteQuery that returns an
\* error has changed the status, started_at and next_run of no job (and
\* removed none), also when the claim call fails while it reads the rows
\* its UPDATE returned.
C13_ErrorLeavesTable ==
    [][( \/ \E w \in Workers : pc[w] = "lease" /\ pc'[w] = "err"
         \/ reply # "Internal" /\ reply' = "Internal" )
       => /\ DOMAIN queries' = DOMAIN queries
          /\ \A i \in DOMAIN queries :
                /\ queries'[i].status = queries[i].status
                /\ queries'[i].started_at = queries[i].started_at
                /\ queries'[i].next_run = queries[i].next_run]_vars

\* C14 as stated: a job that was handed out by a claim call and has been
\* neither rescheduled nor deleted since (it is in progress) is handed out
\* by no claim call, however long ago it was claimed.
C14_NeverHandedOutTwice ==
    [][\A w \in Workers :
          Runs(w) =>
            \A i \in DOMAIN queries :
               queries[i].status = "in_progress" => i \notin IdsOf(resp'[w])]_vars

\* C14, amended: such a job, claimed at t0 (its started_at), is handed out
\* by no claim call whose lease cutoff, the clock as the call read it less
\* LeaseDuration, is at or before t0.
C14_NotHandedOutWithinLease ==
    [][\A w \in Workers :
          Runs(w) =>
            \A i \in DOMAIN queries :
               ( /\ queries[i].status = "in_progress"
                 /\ lease[w] <= queries[i].started_at )
               => i \notin IdsOf(resp'[w])]_vars

\* C14, reached: a call of the job's pool ran while the job, due and
\* claimed by an earlier call, was within its lease, and did not get it.
C14_Witness ==
    \E w \in Workers :
        /\ pc[w] = "rows"
        /\ \E i \in DOMAIN queries :
              /\ queries[i].status = "in_progress"
              /\ queries[i].run_once = Pool(w)
              /\ queries[i].next_run < now[w]
              /\ queries[i].started_at < now[w]
              /\ lease[w] <= queries[i].started_at
              /\ i \notin IdsOf(resp[w])

\* Job i is in progress and in no response on its way to a worker.
Abandoned(i) ==
    /\ i \in DOMAIN queries
    /\ queries[i].status = "in_progress"
    /\ \A w \in Workers : i \notin IdsOf(resp[w])

\* A claim call returns job i.
Returned(i) == \E w \in Workers : pc[w] = "rows" /\ i \in IdsOf(resp[w])

\* The jobs of i's pool with a smaller id.
PoolBefore(i) ==
    {j \in DOMAIN queries : j < i /\ queries[j].run_once = queries[i].run_once}

\* C15 as stated: a job in progress that is never rescheduled or deleted
\* is, as time goes on and claim calls on its pool keep coming, returned
\* again by some claim call, whatever else its pool holds.
C15_AbandonedReturnedAgain ==
    \A i \in 1..LiveRows : [](Abandoned(i) => <>Returned(i))

\* C15, amended: such a job is returned again by some claim call if fewer
\* than BatchSize jobs of its pool have smaller ids.
C15_AbandonedReturnedAgainWithinBatch ==
    \A i \in 1..LiveRows :
        []((Abandoned(i) /\ Cardinality(PoolBefore(i)) < BatchSize) => <>Returned(i))

\* C15, reached: a call returned a job that had been due for more than a
\* lease, with a fresh lease, while a job of its pool with a smaller id,
\* claimed by an earlier call LeaseDuration seconds ago, is in the last
\* second of its lease.
C15_Witness ==
    \E w \in Workers :
        /\ pc[w] = "rows"
        /\ \E k \in DOMAIN resp[w] :
              /\ resp[w][k].next_run = clock - LeaseDuration - 2
              /\ resp[w][k].started_at = clock
              /\ \E j \in DOMAIN queries :
                    /\ j < resp[w][k].id
                    /\ queries[j].run_once = resp[w][k].run_once
                    /\ queries[j].status = "in_progress"
                    /\ queries[j].started_at = clock - LeaseDuration

\* The ids the table has assigned and holds no more: the deleted jobs.
Gone == (1..(nextId - 1)) \ DOMAIN queries

\* C16: DeleteQuery with the id of a job removes the job, and from then on
\* the id is in the table no more, no claim call returns it, and an
\* UpdateNextRun with it changes no row.
C16_DeletedIsGone ==
    [][/\ \A id \in Ids :
             (DeleteQuery(id) /\ id \in DOMAIN queries) => id \notin DOMAIN queries'
       /\ \A i \in Gone :
             /\ i \notin DOMAIN queries'
             /\ \A w \in Workers : Runs(w) => i \notin IdsOf(resp'[w])
             /\ \A league \in Leagues, h \in Updates :
                   UpdateNextRun(i, league, h) => queries' = queries]_vars

\* C16, reached: a job was deleted; the last completion call, an
\* UpdateNextRun with its id, matched no row; and a claim call that read
\* the clock after that call returned nothing.
C16_Witness ==
    /\ last.op = "UpdateNextRun"
    /\ last.id \in Gone
    /\ last.rows = 0
    /\ \E w \in Workers :
          /\ pc[w] = "rows"
          /\ now[w] > last.at
          /\ resp[w] = <<>>

\* C17: a claim call that finds no job of its pool eligible (due, and
\* queued or with its lease over) returns an empty sequence, not an error,
\* and leaves the table as it is.
C17_NothingEligibleNothingDone ==
    [][\A w \in Workers :
          ( /\ pc[w] = "lease" /\ pc'[w] # "lease"
            /\ ~ \E i \in DOMAIN queries :
                    /\ queries[i].run_once = (handler[w] = "GetInfoQueries")
                    /\ queries[i].next_run < now[w]
                    /\ \/ queries[i].status = "queued"
                       \/ queries[i].started_at < lease[w] )
          => /\ pc'[w] = "rows"
             /\ resp'[w] = <<>>
             /\ queries' = queries]_vars

\* C17, reached: a call returned the empty sequence while its pool held
\* jobs, none of them due, and the other pool held a queued job that was
\* due.
C17_Witness ==
    \E w \in Workers :
        /\ pc[w] = "rows"
        /\ resp[w] = <<>>
        /\ \E i \in DOMAIN queries : queries[i].run_once = Pool(w)
        /\ \A i \in DOMAIN queries :
              queries[i].run_once = Pool(w) => queries[i].next_run >= now[w]
        /\ \E i \in DOMAIN queries :
              /\ queries[i].run_once # Pool(w)
              /\ queries[i].status = "queued"
              /\ queries[i].next_run < now[w]

\* Job i was in progress when the last completion call, an UpdateNextRun
\* with q.Update > 0, rescheduled it.
RescheduledLast(i) ==
    /\ last.op = "UpdateNextRun"
    /\ last.id = i
    /\ last.rows = 1
    /\ last.leased
    /\ last.h > 0

\* t - last.at = last.h * SecondsPerHour + extra, for t >= last.at + extra
\* (the difference is divided, not the interval multiplied: the product
\* may not fit TLC's integers).
AfterInterval(t, extra) ==
    /\ (t - last.at - extra) % SecondsPerHour = 0
    /\ (t - last.at - extra) \div SecondsPerHour = last.h

\* C18: after a recurring job was claimed and then rescheduled at time at
\* with update_interval h > 0, no claim call evaluated at a time
\* t <= at + h * 3600 returns it, and a claim call evaluated at
\* at + h * 3600 + 1 on a pool that holds no other job returns it, if no
\* call has claimed it since.
C18_RoundTrip ==
    [][\A w \in Workers :
          Runs(w) =>
            \A i \in DOMAIN queries :
               (RescheduledLast(i) /\ ~ queries[i].run_once /\ now[w] >= last.at)
               => /\ ( \/ (now[w] - last.at) \div SecondsPerHour < last.h
                        \/ AfterInterval(now[w], 0) )
                     => i \notin IdsOf(resp'[w])
                  /\ ( /\ AfterInterval(now[w], 1)
                        /\ queries[i].status = "queued"
                        /\ handler[w] = "GetPriceQueries"
                        /\ \A j \in DOMAIN queries : j # i => queries[j].run_once )
                     => i \in IdsOf(resp'[w])]_vars

\* C19: every job a claim call evaluated at now returns is returned as the
\* call left it: the record has status in_progress and started_at = now,
\* and so has the row of the table when the call returns.
C19_ReturnedPostMutation ==
    [][\A w \in Workers :
          Runs(w) =>
            \A k \in DOMAIN resp'[w] :
               /\ resp'[w][k].status = "in_progress"
               /\ resp'[w][k].started_at = now[w]
               /\ resp'[w][k].id \in DOMAIN queries'
               /\ queries'[resp'[w][k].id].status = "in_progress"
               /\ queries'[resp'[w][k].id].started_at = now[w]]_vars

\* C19, reached: a call returned a job that was queued and became due in
\* the second before the call; record and row are in progress since the
\* call's now.
C19_Witness ==
    \E w \in Workers :
        /\ pc[w] = "rows"
        /\ \E k \in DOMAIN resp[w] :
              /\ resp[w][k].next_run = now[w] - 1
              /\ resp[w][k].status = "in_progress"
              /\ resp[w][k].started_at = now[w]
              /\ queries[resp[w][k].id].status = "in_progress"
              /\ queries[resp[w][k].id].started_at = now[w]

\* C20: the status of a job goes from queued to in_progress only in a
\* claim call that returns the job, and from in_progress to queued only in
\* an UpdateNextRun with the job's id and league; and a step in which only
\* time passes changes no row.
C20_StateMachine ==
    [][/\ \A i \in DOMAIN queries \cap DOMAIN queries' :
             /\ (queries[i].status = "queued" /\ queries'[i].status = "in_progress")
                => \E w \in Workers : Runs(w) /\ i \in IdsOf(resp'[w])
             /\ (queries[i].status = "in_progress" /\ queries'[i].status = "queued")
                => \E h \in Updates : UpdateNextRun(i, queries[i].league, h)
       /\ clock' # clock => queries' = queries]_vars

\* The completion call before this one was handler op with q.Id = id.
Before(op, id) == last.op = op /\ last.id = id

\* C21: UpdateNextRun and DeleteQuery are idempotent.  A DeleteQuery that
\* follows a DeleteQuery with the same id leaves the table as it is.  An
\* UpdateNextRun that follows an UpdateNextRun with the same id, league and
\* update_interval and reads the same time leaves the table as it is: the
\* same time gives the same nextRun, and where the interval is a whole
\* number of seconds the seconds of the clock alone give it.  After an
\* UpdateNextRun and a DeleteQuery with the same id, in either order, the
\* table holds no row with the id.
C21_Idempotent ==
    [][/\ \A id \in Ids :
             (Before("DeleteQuery", id) /\ DeleteQuery(id)) => queries' = queries
       /\ \A id \in Ids, league \in Leagues, h \in Updates :
             ( /\ Before("UpdateNextRun", id)
               /\ last.league = league
               /\ last.h = h
               /\ last.at = clock
               /\ UpdateNextRun(id, league, h) )
             => /\ DOMAIN queries' = DOMAIN queries
                /\ \A i \in DOMAIN queries :
                      ( \/ Cardinality(AddedSeconds[h]) = 1
                        \/ queries'[i].next_run = queries[i].next_run )
                      => queries'[i] = queries[i]
       /\ \A id \in Ids :
             (Before("UpdateNextRun", id) /\ DeleteQuery(id))
             => id \notin DOMAIN queries'
       /\ \A id \in Ids, league \in Leagues, h \in Updates :
             (Before("DeleteQuery", id) /\ UpdateNextRun(id, league, h))
             => id \notin DOMAIN queries']_vars

\* C21, reached: the last completion call, an UpdateNextRun that matched a
\* job, repeated the call before it, and the job is queued and not started
\* with a next_run after the time of the two calls.
C21_Witness ==
    /\ last.op = "UpdateNextRun"
    /\ last.again
    /\ last.rows = 1
    /\ ~ last.leased
    /\ last.id \in DOMAIN queries
    /\ queries[last.id].status = "queued"
    /\ queries[last.id].started_at = 0
    /\ queries[last.id].next_run > last.at

\* Worker w's claim call takes a step.
CallStep(w) == pc'[w] # pc[w]

\* The step leaves every field of job i but status and started_at as it is.
KeepsRequest(i) ==
    /\ queries'[i].item_id = queries[i].item_id
    /\ queries'[i].realm = queries[i].realm
    /\ queries'[i].league = queries[i].league
    /\ queries'[i].search_query = queries[i].search_query
    /\ queries'[i].update_interval = queries[i].update_interval
    /\ queries'[i].next_run = queries[i].next_run
    /\ queries'[i].run_once = queries[i].run_once

\* C22: a claim call changes only the status and started_at of the jobs it
\* returns.  No step of the call adds or removes a job or changes the
\* item_id, realm, league, search_query, update_interval, next_run or
\* run_once of a job, and a job the call does not return is after each of
\* its steps as it was before.
C22_ClaimFrame ==
    [][\A w \in Workers :
          CallStep(w) =>
            /\ DOMAIN queries' = DOMAIN queries
            /\ \A i \in DOMAIN queries :
                  /\ KeepsRequest(i)
                  /\ (pc'[w] # "rows" \/ i \notin IdsOf(resp'[w]))
                     => queries'[i] = queries[i]]_vars

\* C23: UpdateNextRun with the id and league of a job sets the job's status
\* to queued and its started_at to 0 whatever the job's status and whoever
\* holds its lease: a queued job stays queued, a job in progress is
\* released, also when its lease has not run out, and either gets the
\* next_run the call computed.
C23_RescheduleRegardless ==
    [][\A id \in Ids, league \in Leagues, h \in Updates :
          ( /\ id \in DOMAIN queries
            /\ queries[id].league = league
            /\ UpdateNextRun(id, league, h) )
          => /\ queries'[id].status = "queued"
             /\ queries'[id].started_at = 0
             /\ \E a \in AddedSeconds[h] : queries'[id].next_run = clock + a]_vars

\* C23, reached: a job a first worker had claimed (the job of the drawn
\* table that was in progress, known by its next_run) was returned to a
\* second worker after its lease ran out, and the last completion call, an
\* UpdateNextRun made before the second lease ran out, found the job in
\* progress and left it queued and not started while the second worker
\* still holds its response.
C23_Witness ==
    \E w \in Workers :
        /\ pc[w] = "rows"
        /\ last.op = "UpdateNextRun"
        /\ last.rows = 1
        /\ last.leased
        /\ last.at >= now[w]
        /\ last.at - now[w] < LeaseDuration
        /\ \E k \in DOMAIN resp[w] :
              /\ resp[w][k].id = last.id
              /\ resp[w][k].next_run = LeaseDuration - 1
              /\ resp[w][k].started_at = now[w]
              /\ now[w] > 2 * LeaseDuration
        /\ last.id \in DOMAIN queries
        /\ queries[last.id].status = "queued"
        /\ queries[last.id].started_at = 0

\* C24: an UpdateNextRun at time now with the id and league of a job and
\* an update_interval h >= 0 stores a next_run >= now, and a next_run no
\* smaller than the one an UpdateNextRun at the same time with a smaller
\* interval >= 0 stored for the job; with h < 0 it stores a next_run < now,
\* and a claim call that reads the clock at or after now returns the job
\* if it is still queued.
C24_NextRunGrows ==
    [][/\ \A id \in Ids, league \in InsertLeagues, h \in Hours :
             ( /\ id \in DOMAIN queries
               /\ queries[id].league = league
               /\ UpdateNextRun(id, league, h) )
             => /\ h >= 0 => queries'[id].next_run >= clock
                /\ h < 0 => queries'[id].next_run < clock
                /\ ( /\ Before("UpdateNextRun", id)
                      /\ last.rows = 1
                      /\ last.at = clock
                      /\ 0 <= last.h
                      /\ last.h <= h )
                   => queries'[id].next_run >= queries[id].next_run
       /\ \A w \in Workers :
             ( /\ Runs(w)
               /\ last.op = "UpdateNextRun"
               /\ last.rows = 1
               /\ last.h < 0
               /\ now[w] >= last.at
               /\ last.id \in DOMAIN queries
               /\ queries[last.id].status = "queued"
               /\ Cardinality(DOMAIN queries) <= BatchSize )
             => last.id \in IdsOf(resp'[w])]_vars
====
